---- MODULE Spec2Model ----
(***************************************************************************)
(* State-machine model of the SMS/iMessage relay (src/sms/relay.py).       *)
(*                                                                         *)
(* The relay polls the Messages store (chat.db) for inbound rows above a   *)
(* persisted cursor (state.json: last_rowid), filters them, forwards them  *)
(* to a Google Chat webhook or by SMTP, and saves the advanced cursor.     *)
(* The store is written by an unrelated process (the Messages app).        *)
(***************************************************************************)
EXTENDS Integers, Sequences, FiniteSets, TLC

(***************************************************************************)
(* Bounds of the model.                                                    *)
(***************************************************************************)
\* Rows the Messages app appends to the message table in one behaviour.
MaxRowid == 3
\* The configured max_messages_per_run (LIMIT of the fetch query).
MaxPerRun == 2

(***************************************************************************)
(* Program constants (DEFAULT_CONFIG["filters"]).                          *)
(***************************************************************************)
BusinessHoursStart == 8
BusinessHoursEnd == 18
LastBusinessDay == 4

business_days == 0..LastBusinessDay

(***************************************************************************)
(* Program constants (Apple timestamp handling). Integers beyond 32 bits   *)
(* are written as pairs: [giga, rest] stands for giga * 10^9 + rest with   *)
(* 0 <= rest < 10^9.                                                       *)
(***************************************************************************)
\* Seconds between Unix epoch (1970-01-01) and Apple epoch (2001-01-01).
APPLE_EPOCH_OFFSET == 978307200
\* 1e9, the divisor of the nanosecond branch.
Giga == 1000000000
\* 1e15, the magnitude that tells the encodings apart, in units of 1e9.
ThresholdGiga == 1000000
\* The last second datetime can hold, 9999-12-31 23:59:59 UTC = 253402300799.
MaxDatetimeGiga == 253
MaxDatetimeRest == 402300799

(***************************************************************************)
(* Values.                                                                 *)
(***************************************************************************)
\* msg["date"]: the value apple_ts_to_datetime delivers, read in local time
\* (weekday(), hour) as apply_filters reads it; present = FALSE stands for None.
NoDate == [present |-> FALSE, weekday |-> 0, hour |-> 0]
MondayMorning == [present |-> TRUE, weekday |-> 0, hour |-> 9]
SaturdayMorning == [present |-> TRUE, weekday |-> 5, hour |-> 9]
MondayNight == [present |-> TRUE, weekday |-> 0, hour |-> 20]

\* Rows of the message table as the Messages app writes them, each with the
\* id of its handle row (sender) and the number of chat_message_join rows that
\* name it (chats): a message is linked to one chat, or to two (the key of
\* chat_message_join is the pair (chat_id, message_id)).
MessageRows ==
    { [is_from_me |-> 1, text |-> "hi", sender |-> "a", date |-> MondayMorning, chats |-> 1],
      [is_from_me |-> 0, text |-> "hi", sender |-> "a", date |-> MondayMorning, chats |-> 1],
      [is_from_me |-> 0, text |-> "hi", sender |-> "b", date |-> SaturdayMorning, chats |-> 2] }

\* cfg["filters"] as found in config.json.
FilterConfigs ==
    { [allowed_senders |-> {}, blocked_senders |-> {}, business_hours_only |-> FALSE],
      [allowed_senders |-> {"a"}, blocked_senders |-> {"b"}, business_hours_only |-> TRUE] }

\* The inputs of apply_filters taken on its own: inbound rows of either sender
\* with every kind of date (m.date 0 or NULL included), and every allow-list
\* and block-list over the two senders with business_hours_only on and off.
FilterRows ==
    { [is_from_me |-> 0, text |-> "hi", sender |-> s, date |-> d, chats |-> 1] :
        s \in {"a", "b"}, d \in {NoDate, MondayMorning, SaturdayMorning, MondayNight} }

AllFilterConfigs ==
    [allowed_senders : SUBSET {"a", "b"},
     blocked_senders : SUBSET {"a", "b"},
     business_hours_only : BOOLEAN]

\* (forward_method, gchat_webhook_url) as found in config.json; "" is the
\* gchat_webhook_url of DEFAULT_CONFIG.
SinkConfigs ==
    { [forward_method |-> "gchat_webhook", gchat_webhook_url |-> "https://chat.example/hook"],
      [forward_method |-> "gchat_webhook", gchat_webhook_url |-> ""],
      [forward_method |-> "email", gchat_webhook_url |-> ""] }

\* DEFAULT_CONFIG, which load_config writes when config.json does not exist.
DEFAULT_CONFIG ==
    [forward_method |-> "gchat_webhook",
     gchat_webhook_url |-> "",
     digest_mode |-> FALSE,
     filters |-> [allowed_senders |-> {}, blocked_senders |-> {},
                  business_hours_only |-> FALSE],
     max_messages_per_run |-> MaxPerRun]

Configs ==
    { [forward_method |-> s.forward_method,
       gchat_webhook_url |-> s.gchat_webhook_url,
       digest_mode |-> d,
       filters |-> f,
       max_messages_per_run |-> MaxPerRun] :
        s \in SinkConfigs, d \in BOOLEAN, f \in FilterConfigs }

\* What the webhook endpoint / the network does with one POST.
WebhookResponses == {"200", "204", "HTTPError", "URLError", "timeout"}
\* What the SMTP server does with one submission.
SmtpResponses == {"sent", "connect_failed", "auth_failed", "submit_failed"}

\* m.date of a row: NULL (present = FALSE), or the integer giga * 10^9 + rest
\* with 0 <= rest < 10^9.
NoTimestamp == [present |-> FALSE, giga |-> 0, rest |-> 0]

\* Values of m.date: NULL, 0, small and large second counts, the values around
\* 1e15, and nanosecond counts up to 1e18.
RawTimestamps ==
    {NoTimestamp} \cup
    { [present |-> TRUE, giga |-> g, rest |-> r] :
        g \in {0, 1, 2, 252, 253, ThresholdGiga - 1, ThresholdGiga, ThresholdGiga + 1, Giga},
        r \in {0, 1, 21692800, 423993599, 423993600, 500000000, Giga - 1} }

\* The contents of state.json.
AbsentFile == [kind |-> "absent", last_rowid |-> 0]
TornFile == [kind |-> "torn", last_rowid |-> 0]
StateJson(rowid) == [kind |-> "json", last_rowid |-> rowid]

VARIABLES
    store,        \* chat.db message table: store[r] is the row with ROWID r
    stateFile,    \* state.json
    cfg,          \* config.json as load_config returns it
    configExists, \* CONFIG_FILE.exists()
    pc,           \* position of the relay process ("stopped": no process)
    mode,         \* command line of the running process: daemon, once, seed
    exit,         \* how the last process ended: none, ok, exception, killed, exit_1
    state,        \* the state dict in hand (run_once, main --seed)
    last_rowid,   \* run_once: state.get("last_rowid", 0)
    messages,     \* run_once: the fetched batch
    filtered,     \* run_once: apply_filters(messages, ...)
    i,            \* forward: index of the next message to send
    ok,           \* forward: the ok flag
    outcome,      \* this cycle: how run_once ended (none while it runs)
    sends,        \* this cycle: the send calls in order: records carried, text, result
    answer,       \* this cycle: what the sink's peer did with the last send call
    dbError,      \* this cycle: the sqlite3.OperationalError of the fetch, if any
    maxSeen,      \* history: highest rowid any fetch returned (or seeded cursor)
    failedEver,   \* history: rowids a send call failed for
    lostBatch,    \* history: batch in hand when the process was last killed mid-cycle
    seeded,       \* history: {max_rowid} of the last main --seed, while the store is as
                  \* it was and no run_once has ended since; {} otherwise
    consumed,     \* history: {cursor} saved by the last completed run_once that left
                  \* no inbound row above it, while store and state.json are as it
                  \* left them; {} otherwise
    report,       \* cmd_status: << what it printed >>, << >> before it has
    apple_ts,     \* apple_ts_to_datetime: its argument (m.date of a row)
    normalized    \* apple_ts_to_datetime: << what it returned or raised >>

locals == << state, last_rowid, messages, filtered, i, ok >>
cycle == << outcome, sends, answer, dbError >>
history == << maxSeen, failedEver, lostBatch, seeded, consumed >>

config == << cfg, configExists >>
aside == << report, apple_ts, normalized >>

vars == << store, stateFile, config, pc, mode, exit, locals, cycle, history, aside >>

(***************************************************************************)
(* Helpers on sequences.                                                   *)
(***************************************************************************)
Last(s) == s[Len(s)]

Range(s) == { s[k] : k \in 1..Len(s) }

Rowids(msgs) == { msgs[k].rowid : k \in 1..Len(msgs) }

Max(S) == CHOOSE x \in S : \A y \in S : y <= x

Min(S) == CHOOSE x \in S : \A y \in S : x <= y

IsPrefix(s, t) == Len(s) <= Len(t) /\ \A k \in 1..Len(s) : s[k] = t[k]

(***************************************************************************)
(* Config & state (load_state, save_state).                                *)
(***************************************************************************)
\* load_config: json.loads of config.json, returned as it is; when the file
\* does not exist, nothing is returned (the default is written, sys.exit(1)).
load_config(exists, contents) ==
    IF exists THEN [loaded |-> TRUE, cfg |-> contents]
    ELSE [loaded |-> FALSE, cfg |-> DEFAULT_CONFIG]

\* load_state: the dict read from state.json, {"last_rowid": 0} when the file
\* does not exist; json.loads raises on a file that is not complete JSON.
load_state(file) ==
    CASE file.kind = "absent" -> [error |-> FALSE, last_rowid |-> 0]
      [] file.kind = "json"   -> [error |-> FALSE, last_rowid |-> file.last_rowid]
      [] OTHER                -> [error |-> TRUE, last_rowid |-> 0]

\* save_state, first half: Path.write_text opens state.json for writing, which
\* truncates it; the old contents are gone before the new ones are written.
save_state_open(file) == TornFile

\* save_state, second half: the JSON text is written and the file closed.
save_state_write(st) == StateJson(st.last_rowid)

(***************************************************************************)
(* Apple timestamp handling (apple_ts_to_datetime).                        *)
(* A result is None, a datetime (its Unix second as a pair, and the        *)
(* nanoseconds within it), or the ValueError datetime raises.              *)
(***************************************************************************)
\* datetime.fromtimestamp(unix_ts, tz=timezone.utc) for unix_ts = secs + nanos
\* / 1e9: "year ... is out of range" past the year 9999.
fromtimestamp(secs, nanos) ==
    IF \/ secs.giga > MaxDatetimeGiga
       \/ (secs.giga = MaxDatetimeGiga /\ secs.rest > MaxDatetimeRest)
    THEN [kind |-> "ValueError", secs |-> [giga |-> 0, rest |-> 0], nanos |-> 0]
    ELSE [kind |-> "datetime", secs |-> secs, nanos |-> nanos]

\* unix_ts = apple_ts + APPLE_EPOCH_OFFSET
FromSeconds(ts) ==
    fromtimestamp([giga |-> ts.giga + ((ts.rest + APPLE_EPOCH_OFFSET) \div Giga),
                   rest |-> (ts.rest + APPLE_EPOCH_OFFSET) % Giga], 0)

\* unix_ts = (apple_ts / 1e9) + APPLE_EPOCH_OFFSET
FromNanoseconds(ts) ==
    fromtimestamp([giga |-> (ts.giga + APPLE_EPOCH_OFFSET) \div Giga,
                   rest |-> (ts.giga + APPLE_EPOCH_OFFSET) % Giga], ts.rest)

NoneResult == [kind |-> "None", secs |-> [giga |-> 0, rest |-> 0], nanos |-> 0]

\* apple_ts > 1e15
Above1e15(ts) == ts.giga > ThresholdGiga \/ (ts.giga = ThresholdGiga /\ ts.rest > 0)

\* A slip: the nanosecond branch without the epoch offset.
apple_ts_to_datetime_no_offset(ts) ==
    IF ~ts.present \/ (ts.giga = 0 /\ ts.rest = 0) THEN NoneResult
    ELSE IF Above1e15(ts)
         THEN fromtimestamp([giga |-> ts.giga \div Giga, rest |-> ts.giga % Giga], ts.rest)
         ELSE FromSeconds(ts)

\* apple_ts_to_datetime: None for None and 0; above 1e15 nanoseconds, else
\* seconds, since the Apple epoch.
apple_ts_to_datetime(ts) ==
    IF ~ts.present \/ (ts.giga = 0 /\ ts.rest = 0) THEN NoneResult
    ELSE IF Above1e15(ts) THEN FromNanoseconds(ts)
         ELSE FromSeconds(ts)

(***************************************************************************)
(* Database queries (fetch_new_messages, get_max_rowid).                   *)
(***************************************************************************)
\* A slip: the cursor's own row taken again (ROWID >= ?).
Where_from_cursor(db, r, cursor) ==
    /\ db[r].is_from_me = 0
    /\ r >= cursor
    /\ db[r].text # ""

\* WHERE m.is_from_me = 0 AND m.ROWID > ? AND m.text IS NOT NULL AND m.text != ''
Where(db, r, cursor) ==
    /\ db[r].is_from_me = 0
    /\ r > cursor
    /\ db[r].text # ""

\* ORDER BY m.ROWID ASC, as a sequence of rowids.
RECURSIVE OrderByRowidAsc(_)
OrderByRowidAsc(S) ==
    IF S = {} THEN << >>
    ELSE << Min(S) >> \o OrderByRowidAsc(S \ {Min(S)})

\* LIMIT ?
Limit(rows, n) == SubSeq(rows, 1, IF Len(rows) < n THEN Len(rows) ELSE n)

\* LEFT JOIN chat_message_join cmj ON cmj.message_id = m.ROWID (LEFT JOIN chat
\* follows it one to one): the number of result rows message r gives, one per
\* matching chat_message_join row, and one (with NULLs) when none matches.
JoinRows(db, r) == IF db[r].chats = 0 THEN 1 ELSE db[r].chats

\* FROM message m LEFT JOIN ...: the result rows for the messages of the
\* sequence rowids, in its order, as a sequence of rowids.
RECURSIVE FromJoin(_, _)
FromJoin(db, rowids) ==
    IF rowids = << >> THEN << >>
    ELSE [ k \in 1..JoinRows(db, Head(rowids)) |-> Head(rowids) ]
             \o FromJoin(db, Tail(rowids))

\* One dict of the returned list.
MessageDict(db, r) ==
    [rowid |-> r, sender |-> db[r].sender, date |-> db[r].date]

fetch_new_messages(db, cursor, limit) ==
    LET rows == Limit(FromJoin(db, OrderByRowidAsc({ r \in 1..Len(db) : Where(db, r, cursor) })),
                      limit)
    IN  [ k \in 1..Len(rows) |-> MessageDict(db, rows[k]) ]

\* A slip: the maximum taken over the inbound rows the fetch would return.
get_max_rowid_inbound(db) ==
    Max({0} \cup { r \in 1..Len(db) : db[r].is_from_me = 0 })

\* SELECT MAX(ROWID) FROM message; row[0] or 0.
\* A slip: SELECT COUNT(*) over the inbound rows in place of MAX(ROWID).
get_max_rowid_count(db) == Cardinality({ r \in DOMAIN db : db[r].is_from_me = 0 })

get_max_rowid(db) == IF Len(db) = 0 THEN 0 ELSE Len(db)

(***************************************************************************)
(* Filtering (apply_filters).                                              *)
(***************************************************************************)
\* A slip: a sender on the allow-list is let through without looking at the
\* block-list.
Admitted_allow_wins(msg, filters) ==
    /\ ~(filters.allowed_senders # {} /\ msg.sender \notin filters.allowed_senders)
    /\ (msg.sender \in filters.allowed_senders \/ msg.sender \notin filters.blocked_senders)
    /\ ~( /\ filters.business_hours_only
          /\ msg.date.present
          /\ \/ msg.date.weekday \notin business_days
             \/ ~(BusinessHoursStart <= msg.date.hour /\ msg.date.hour < BusinessHoursEnd) )

\* A slip: the allow-list applied also when it is empty.
Admitted_empty_allow_list(msg, filters) ==
    /\ msg.sender \in filters.allowed_senders
    /\ msg.sender \notin filters.blocked_senders
    /\ ~( /\ filters.business_hours_only
          /\ msg.date.present
          /\ \/ msg.date.weekday \notin business_days
             \/ ~(BusinessHoursStart <= msg.date.hour /\ msg.date.hour < BusinessHoursEnd) )

\* The body of the loop of apply_filters: TRUE when msg is appended to result.
Admitted(msg, filters) ==
    /\ ~(filters.allowed_senders # {} /\ msg.sender \notin filters.allowed_senders)
    /\ msg.sender \notin filters.blocked_senders
    /\ ~( /\ filters.business_hours_only
          /\ msg.date.present
          /\ \/ msg.date.weekday \notin business_days
             \/ ~(BusinessHoursStart <= msg.date.hour /\ msg.date.hour < BusinessHoursEnd) )

\* A slip: the batch handed on unfiltered.
apply_filters_none(msgs, filters) == msgs

apply_filters(msgs, filters) ==
    LET Keep(m) == Admitted(m, filters) IN SelectSeq(msgs, Keep)

(***************************************************************************)
(* Formatting (format_message, format_digest).                             *)
(* A text is a record: its header line (<< count >>, or << >> when it has  *)
(* none) and its body, the formatted messages in order.                    *)
(***************************************************************************)
\* format_message: the block of one message, which names its sender and its
\* date ("unknown" for None).
format_message(msg) == [sender |-> msg.sender, ts |-> msg.date]

\* A slip: the digest made of the first message only, under the full count.
format_digest_first_only(msgs) ==
    [header |-> << Len(msgs) >>, body |-> << format_message(msgs[1]) >>]

\* format_digest: the header "SMS/iMessage Digest - N new message(s)" with
\* N = len(messages), then the blocks of all messages joined in list order.
format_digest(msgs) ==
    [header |-> << Len(msgs) >>,
     body |-> [ k \in 1..Len(msgs) |-> format_message(msgs[k]) ]]

(***************************************************************************)
(* Forwarding (send_gchat_webhook, send_email, forward).                   *)
(* A send returns "True" or "False", or raises the exception it names.     *)
(***************************************************************************)
\* urllib.request.Request raises ValueError("unknown url type") for a URL
\* without a scheme, the empty URL of DEFAULT_CONFIG included.
ValidUrl(url) == url # ""

\* send_gchat_webhook: Request(...) is built before the try; inside it, a 200
\* gives True, another 2xx gives False, HTTPError (a URLError) and URLError
\* are logged and give False; a timeout while the response is read is a
\* TimeoutError, which is no URLError.
send_gchat_webhook(webhook_url, resp) ==
    IF ~ValidUrl(webhook_url) THEN "ValueError"
    ELSE CASE resp = "200"       -> "True"
           [] resp = "204"       -> "False"
           [] resp = "HTTPError" -> "False"
           [] resp = "URLError"  -> "False"
           [] OTHER              -> "TimeoutError"

\* A slip: login made before the try, so that its failure is raised.
send_email_login_outside_try(c, resp) ==
    CASE resp = "sent"        -> "True"
      [] resp = "auth_failed" -> "SMTPAuthenticationError"
      [] OTHER                -> "False"

\* send_email: connect, starttls, login and send_message are all inside
\* try ... except Exception.
send_email(c, resp) ==
    IF resp = "sent" THEN "True" ELSE "False"

Returned(result) == result \in {"True", "False"}

\* The responses the configured sink's peer can give.
Responses(c) ==
    IF c.forward_method = "gchat_webhook" THEN WebhookResponses ELSE SmtpResponses

\* The send call forward makes for one payload.
Send(c, resp) ==
    IF c.forward_method = "gchat_webhook"
    THEN send_gchat_webhook(c.gchat_webhook_url, resp)
    ELSE send_email(c, resp)

\* A slip: the loop left at the first send that returns False.
forward_next_break(result, idx) ==
    IF result = "False" THEN Len(filtered) + 1 ELSE idx + 1

\* A slip: the loop steps over the message after the one it sent.
forward_next_skip(result, idx) == idx + 2

\* forward, non-digest loop: the index of the next message after a send that
\* returned; the loop goes on whatever the send returned.
forward_next(result, idx) == idx + 1

(***************************************************************************)
(* Core loop (run_once, run_daemon) and CLI (main).                        *)
(***************************************************************************)
\* A slip: the cursor taken from the last forwarded message.
new_rowid_of_filtered(msgs) ==
    IF filtered = << >> THEN last_rowid ELSE Last(filtered).rowid

\* A slip: the cursor moved to the store's maximum at the time of the save.
new_rowid_of_store(msgs) == get_max_rowid(store)

\* run_once: new_rowid = messages[-1]["rowid"]
new_rowid(msgs) == Last(msgs).rowid

\* A slip: the cursor saved without forwarding.
AfterFilter_skip_forward(filt) == "persist"

\* run_once after apply_filters: forward is called only "if filtered".
AfterFilter(filt) == IF filt = << >> THEN "persist" ELSE "forwarding"

\* Where the process is after run_once returns: run_daemon sleeps and loops,
\* main --once returns.
AfterReturn(m) == IF m = "daemon" THEN "sleeping" ELSE "stopped"

\* A slip: run_daemon without its try/except.
AfterRaise_uncaught(m) == "stopped"

\* Where the process is after run_once raises: run_daemon catches Exception,
\* logs and sleeps; main --once lets it end the process.
AfterRaise(m) == IF m = "daemon" THEN "sleeping" ELSE "stopped"

\* A slip: the except clause re-raises whatever the message.
OnOperationalError_reraise(msg) == "raised"

\* run_once with an except clause that returns on every OperationalError.
OnOperationalError_swallow(msg) == "skipped"

\* run_once: what the except clause of the fetch does with
\* sqlite3.OperationalError: returns on "database is locked", re-raises others.
OnOperationalError(msg) == IF msg = "database is locked" THEN "skipped" ELSE "raised"

OperationalErrors == {"database is locked", "unable to open database file"}

\* A slip: the backlog printed as computed, without max(pending, 0).
cmd_status_unclamped(file, db) ==
    IF load_state(file).error THEN << >>
    ELSE << [last_rowid |-> load_state(file).last_rowid,
             db_max |-> get_max_rowid(db),
             pending |-> get_max_rowid(db) - load_state(file).last_rowid] >>

\* cmd_status: what it prints of the cursor and the store: "Last ROWID",
\* "DB max ROWID" and "pending inbound: ~max(pending, 0)" with
\* pending = db_max - last_rowid; nothing of these when load_state raises.
cmd_status(file, db) ==
    IF load_state(file).error THEN << >>
    ELSE << [last_rowid |-> load_state(file).last_rowid,
             db_max |-> get_max_rowid(db),
             pending |-> Max({get_max_rowid(db) - load_state(file).last_rowid, 0})] >>

\* No inbound row with a text lies above the rowid c in the message table.
NothingAbove(c) ==
    \A r \in DOMAIN store : r > c => (store[r].is_from_me # 0 \/ store[r].text = "")

\* run_once ends: it returns ("completed", "empty", "skipped") or raises.
EndCycle(how) ==
    /\ outcome' = how
    /\ pc' = "returning"
    /\ UNCHANGED exit

\* The frame of run_once and what was observed of the cycle, as at its start.

Fresh ==
    /\ state' = [last_rowid |-> 0]
    /\ last_rowid' = 0
    /\ messages' = << >>
    /\ filtered' = << >>
    /\ i' = 1
    /\ ok' = TRUE
    /\ outcome' = "none"
    /\ sends' = << >>
    /\ answer' = "none"
    /\ dbError' = "none"

Init ==
    /\ store = << >>
    /\ stateFile = AbsentFile
    /\ cfg \in Configs
    /\ configExists \in BOOLEAN
    /\ ~configExists => cfg = DEFAULT_CONFIG
    /\ pc = "stopped"
    /\ mode = "once"
    /\ exit = "none"
    /\ state = [last_rowid |-> 0]
    /\ last_rowid = 0
    /\ messages = << >>
    /\ filtered = << >>
    /\ i = 1
    /\ ok = TRUE
    /\ outcome = "none"
    /\ sends = << >>
    /\ answer = "none"
    /\ dbError = "none"
    /\ maxSeen = 0
    /\ failedEver = {}
    /\ lostBatch = << >>
    /\ seeded = {}
    /\ consumed = {}
    /\ report = << >>
    /\ apple_ts = NoTimestamp
    /\ normalized = << >>

\* The Messages app inserts a row; ROWIDs are handed out in increasing order.
AppendRow ==
    /\ Len(store) < MaxRowid
    /\ \E row \in MessageRows : store' = Append(store, row)
    /\ seeded' = {}
    /\ consumed' = {}
    /\ UNCHANGED << stateFile, config, pc, mode, exit, locals, cycle, maxSeen, failedEver,
                    lostBatch >>
    /\ UNCHANGED aside

\* main, line 437, when config.json does not exist: load_config writes
\* DEFAULT_CONFIG to it and ends the process with sys.exit(1).
StartWithoutConfig ==
    /\ pc = "stopped"
    /\ ~load_config(configExists, cfg).loaded
    /\ configExists' = TRUE
    /\ cfg' = load_config(configExists, cfg).cfg
    /\ exit' = "exit_1"
    /\ UNCHANGED << store, stateFile, pc, mode, locals, cycle, history >>
    /\ UNCHANGED aside

\* main: the process is started as daemon (default), --once or --seed, and
\* load_config returns the configuration.
Start ==
    /\ pc = "stopped"
    /\ load_config(configExists, cfg).loaded
    /\ \E m \in {"daemon", "once", "seed"} :
        /\ mode' = m
        /\ pc' = IF m = "seed" THEN "seed" ELSE "run_once"
    /\ exit' = "none"
    /\ UNCHANGED << store, stateFile, config, locals, cycle, history >>
    /\ UNCHANGED aside

\* run_once, lines 332-333: the state is loaded; load_state raises on an
\* unparsable state.json.
LoadState ==
    /\ pc = "run_once"
    /\ IF load_state(stateFile).error
       THEN /\ EndCycle("raised")
            /\ UNCHANGED << state, last_rowid >>
       ELSE /\ state' = [last_rowid |-> load_state(stateFile).last_rowid]
            /\ last_rowid' = load_state(stateFile).last_rowid
            /\ pc' = "loaded"
            /\ UNCHANGED << exit, outcome >>
    /\ UNCHANGED << store, stateFile, config, mode, messages, filtered, i, ok, sends, answer,
                    dbError, history >>
    /\ UNCHANGED aside

\* run_once, lines 337-348: the fetch raises sqlite3.OperationalError.
FetchFails ==
    /\ pc = "loaded"
    /\ \E msg \in OperationalErrors :
        /\ dbError' = msg
        /\ EndCycle(OnOperationalError(msg))
    /\ UNCHANGED << store, stateFile, config, mode, locals, sends, answer, history >>
    /\ UNCHANGED aside

\* run_once, lines 337-343: the batch is fetched.
Fetch ==
    /\ pc = "loaded"
    /\ messages' = fetch_new_messages(store, last_rowid, cfg.max_messages_per_run)
    /\ maxSeen' = Max({maxSeen} \cup Rowids(messages'))
    /\ pc' = "fetched"
    /\ UNCHANGED << store, stateFile, config, mode, exit, state, last_rowid, filtered, i, ok,
                    cycle, failedEver, lostBatch, seeded, consumed >>
    /\ UNCHANGED aside

\* run_once, lines 350-352: "No new messages".
NoNewMessages ==
    /\ pc = "fetched"
    /\ messages = << >>
    /\ EndCycle("empty")
    /\ lostBatch' = << >>
    /\ UNCHANGED << store, stateFile, config, mode, locals, sends, answer, dbError,
                    maxSeen, failedEver, seeded, consumed >>
    /\ UNCHANGED aside

\* run_once, lines 356-361.
Filter ==
    /\ pc = "fetched"
    /\ messages # << >>
    /\ filtered' = apply_filters(messages, cfg.filters)
    /\ pc' = AfterFilter(filtered')
    /\ lostBatch' = << >>
    /\ UNCHANGED << store, stateFile, config, mode, exit, state, last_rowid, messages, i, ok,
                    cycle, maxSeen, failedEver, seeded, consumed >>
    /\ UNCHANGED aside

\* One send call of forward, with the text made of the messages msgs.
SendCall(msgs, text, resp) ==
    LET result == Send(cfg, resp)
        ids == Rowids(msgs)
    IN  /\ sends' = Append(sends, [rowids |-> [ k \in 1..Len(msgs) |-> msgs[k].rowid ],
                                   text |-> text,
                                   result |-> result])
        /\ answer' = resp
        /\ failedEver' = IF result = "True" THEN failedEver ELSE failedEver \cup ids

\* forward, lines 305-309: digest mode, one send for the whole batch.
ForwardDigest ==
    /\ pc = "forwarding"
    /\ cfg.digest_mode
    /\ \E resp \in Responses(cfg) :
        /\ SendCall(filtered, format_digest(filtered), resp)
        /\ IF Returned(Send(cfg, resp))
           THEN /\ ok' = (Send(cfg, resp) = "True")
                /\ pc' = "persist"
                /\ UNCHANGED << exit, outcome >>
           ELSE /\ EndCycle("raised")
                /\ UNCHANGED ok
    /\ UNCHANGED << store, stateFile, config, mode, state, last_rowid, messages, filtered, i,
                    dbError, maxSeen, lostBatch, seeded, consumed >>
    /\ UNCHANGED aside

\* forward, lines 311-322: one iteration of the loop.
ForwardOne ==
    /\ pc = "forwarding"
    /\ ~cfg.digest_mode
    /\ i <= Len(filtered)
    /\ \E resp \in Responses(cfg) :
        /\ SendCall(<< filtered[i] >>,
                    [header |-> << >>, body |-> << format_message(filtered[i]) >>], resp)
        /\ IF Returned(Send(cfg, resp))
           THEN /\ ok' = (ok /\ Send(cfg, resp) = "True")
                /\ i' = forward_next(Send(cfg, resp), i)
                /\ pc' = IF i' > Len(filtered) THEN "persist" ELSE "forwarding"
                /\ UNCHANGED << exit, outcome >>
           ELSE /\ EndCycle("raised")
                /\ UNCHANGED << i, ok >>
    /\ UNCHANGED << store, stateFile, config, mode, state, last_rowid, messages, filtered,
                    dbError, maxSeen, lostBatch, seeded, consumed >>
    /\ UNCHANGED aside

\* run_once, lines 367-371 up to the open inside save_state.
Persist ==
    /\ pc = "persist"
    /\ state' = [last_rowid |-> new_rowid(messages)]
    /\ stateFile' = save_state_open(stateFile)
    /\ pc' = "writing"
    /\ UNCHANGED << store, config, mode, exit, last_rowid, messages, filtered, i, ok,
                    cycle, history >>
    /\ UNCHANGED aside

\* main --seed, lines 440-446 up to the open inside save_state.
Seed ==
    /\ pc = "seed"
    /\ state' = [last_rowid |-> get_max_rowid(store)]
    /\ stateFile' = save_state_open(stateFile)
    /\ pc' = "writing"
    /\ lostBatch' = << >>
    /\ seeded' = {}
    /\ consumed' = {}
    /\ UNCHANGED << store, config, mode, exit, last_rowid, messages, filtered, i, ok,
                    cycle, maxSeen, failedEver >>
    /\ UNCHANGED aside

\* save_state: the text is written; run_once returns, main --seed ends.
WriteState ==
    /\ pc = "writing"
    /\ stateFile' = save_state_write(state)
    /\ IF mode = "seed"
       THEN /\ pc' = "stopped"
            /\ exit' = "ok"
            /\ maxSeen' = Max({maxSeen, state.last_rowid})
            /\ seeded' = IF get_max_rowid(store) = state.last_rowid
                         THEN {state.last_rowid} ELSE {}
            /\ state' = [last_rowid |-> 0]
            /\ UNCHANGED outcome
       ELSE /\ EndCycle("completed")
            /\ UNCHANGED << maxSeen, state, seeded >>
    /\ UNCHANGED << store, config, mode, last_rowid, messages, filtered, i, ok, sends, answer,
                    dbError, failedEver, lostBatch, consumed >>
    /\ UNCHANGED aside

\* The caller of run_once takes over: run_daemon (lines 379-384) logs a raised
\* exception and sleeps, main --once (line 455) returns or dies of it. The
\* frame of run_once is gone.
Caller ==
    /\ pc = "returning"
    /\ pc' = IF outcome = "raised" THEN AfterRaise(mode) ELSE AfterReturn(mode)
    /\ exit' = IF pc' = "stopped"
               THEN (IF outcome = "raised" THEN "exception" ELSE "ok")
               ELSE exit
    /\ Fresh
    /\ seeded' = {}
    /\ consumed' = IF outcome = "completed"
                   THEN (IF NothingAbove(state.last_rowid) THEN {state.last_rowid} ELSE {})
                   ELSE consumed
    /\ UNCHANGED << store, stateFile, config, mode, maxSeen, failedEver, lostBatch >>
    /\ UNCHANGED aside

\* run_daemon: time.sleep(interval) is over, the next run_once begins.
Wake ==
    /\ pc = "sleeping"
    /\ pc' = "run_once"
    /\ UNCHANGED << store, stateFile, config, mode, exit, locals, cycle, history >>
    /\ UNCHANGED aside

\* The process is killed (signal, power loss) wherever it is; what it held in
\* memory is gone, state.json is left as it is.
Crash ==
    /\ pc # "stopped"
    /\ pc' = "stopped"
    /\ exit' = "killed"
    /\ lostBatch' = IF pc \in {"fetched", "forwarding", "persist"} THEN messages ELSE lostBatch
    /\ Fresh
    /\ consumed' = IF pc = "writing" THEN {} ELSE consumed
    /\ UNCHANGED << store, stateFile, config, mode, maxSeen, failedEver, seeded >>
    /\ UNCHANGED aside

\* The steps of the relay process itself.
Relay ==
    \/ LoadState
    \/ FetchFails
    \/ Fetch
    \/ NoNewMessages
    \/ Filter
    \/ ForwardDigest
    \/ ForwardOne
    \/ Persist
    \/ Seed
    \/ WriteState
    \/ Caller
    \/ Wake

NextNoCrash ==
    \/ AppendRow
    \/ StartWithoutConfig
    \/ Start
    \/ Relay

Next ==
    \/ AppendRow
    \/ StartWithoutConfig
    \/ Start
    \/ Relay
    \/ Crash

\* run_once at line 356, about to filter a batch it fetched with the cursor
\* at 0 from a store of inbound rows of every kind, under any filter settings.
FilterInit ==
    /\ store \in UNION { [1..n -> FilterRows] : n \in 1..MaxPerRun }
    /\ cfg \in { [forward_method |-> "email", gchat_webhook_url |-> "",
                   digest_mode |-> FALSE, filters |-> f,
                   max_messages_per_run |-> MaxPerRun] : f \in AllFilterConfigs }
    /\ configExists = TRUE
    /\ stateFile = AbsentFile
    /\ pc = "fetched"
    /\ mode = "once"
    /\ exit = "none"
    /\ state = [last_rowid |-> 0]
    /\ last_rowid = 0
    /\ messages = fetch_new_messages(store, 0, MaxPerRun)
    /\ filtered = << >>
    /\ i = 1
    /\ ok = TRUE
    /\ outcome = "none"
    /\ sends = << >>
    /\ answer = "none"
    /\ dbError = "none"
    /\ maxSeen = Len(store)
    /\ failedEver = {}
    /\ lostBatch = << >>
    /\ seeded = {}
    /\ consumed = {}
    /\ report = << >>
    /\ apple_ts = NoTimestamp
    /\ normalized = << >>

FilterNext == Filter

\* A store and a state.json as relay.py --status may find them: any rows,
\* any cursor an earlier run saved, also one above the store's maximum (rows
\* deleted from chat.db since), a missing file, or one torn by a kill.
StatusInit ==
    /\ store \in UNION { [1..n -> MessageRows] : n \in 0..MaxRowid }
    /\ stateFile \in {AbsentFile, TornFile} \cup { StateJson(c) : c \in 0..(MaxRowid + 1) }
    /\ cfg \in {DEFAULT_CONFIG}
    /\ configExists = TRUE
    /\ pc = "stopped"
    /\ mode = "once"
    /\ exit = "none"
    /\ state = [last_rowid |-> 0]
    /\ last_rowid = 0
    /\ messages = << >>
    /\ filtered = << >>
    /\ i = 1
    /\ ok = TRUE
    /\ outcome = "none"
    /\ sends = << >>
    /\ answer = "none"
    /\ dbError = "none"
    /\ maxSeen = 0
    /\ failedEver = {}
    /\ lostBatch = << >>
    /\ seeded = {}
    /\ consumed = {}
    /\ report = << >>
    /\ apple_ts = NoTimestamp
    /\ normalized = << >>

\* main --status, lines 437-451: load_config, then cmd_status is called.
StartStatus ==
    /\ pc = "stopped"
    /\ exit = "none"
    /\ load_config(configExists, cfg).loaded
    /\ mode' = "status"
    /\ pc' = "status"
    /\ UNCHANGED << store, stateFile, config, exit, locals, cycle, history, aside >>

\* cmd_status, lines 404-415, and the return of main (or its death of the
\* exception load_state raised).
Status ==
    /\ pc = "status"
    /\ report' = cmd_status(stateFile, store)
    /\ exit' = IF load_state(stateFile).error THEN "exception" ELSE "ok"
    /\ pc' = "stopped"
    /\ UNCHANGED << store, stateFile, config, mode, locals, cycle, history, apple_ts,
                    normalized >>

StatusNext ==
    \/ StartStatus
    \/ Status

\* fetch_new_messages at line 189, about to convert the date of a row.
TimestampInit ==
    /\ apple_ts \in RawTimestamps
    /\ normalized = << >>
    /\ report = << >>
    /\ store = << >>
    /\ stateFile = AbsentFile
    /\ cfg \in {DEFAULT_CONFIG}
    /\ configExists = TRUE
    /\ pc = "converting"
    /\ mode = "once"
    /\ exit = "none"
    /\ state = [last_rowid |-> 0]
    /\ last_rowid = 0
    /\ messages = << >>
    /\ filtered = << >>
    /\ i = 1
    /\ ok = TRUE
    /\ outcome = "none"
    /\ sends = << >>
    /\ answer = "none"
    /\ dbError = "none"
    /\ maxSeen = 0
    /\ failedEver = {}
    /\ lostBatch = << >>
    /\ seeded = {}
    /\ consumed = {}

\* fetch_new_messages, line 189: "date": apple_ts_to_datetime(r["date"]).
Convert ==
    /\ pc = "converting"
    /\ normalized' = << apple_ts_to_datetime(apple_ts) >>
    /\ pc' = "converted"
    /\ UNCHANGED << store, stateFile, config, mode, exit, locals, cycle, history, report,
                    apple_ts >>

TimestampNext == Convert

\* The relay with a process that may be killed at any point.
Spec == Init /\ [][Next]_vars

\* The relay in the runs where no process is killed.
NoCrashSpec == Init /\ [][NextNoCrash]_vars

\* The same, with a running process always taking its next step.
FairSpec == Init /\ [][NextNoCrash]_vars /\ WF_vars(Relay)

\* The same, and the fetch of a cycle does not fail for ever: contention for
\* the database lock does not persist.
LiveSpec == Init /\ [][NextNoCrash]_vars /\ WF_vars(Relay) /\ SF_vars(Fetch)

\* apple_ts_to_datetime on its own: one call on each value of m.date.
TimestampSpec == TimestampInit /\ [][TimestampNext]_vars

\* relay.py --status on its own: one run on each store and state.json.
StatusSpec == StatusInit /\ [][StatusNext]_vars

\* apply_filters on its own: one call on each batch and each filter setting.
FilterSpec == FilterInit /\ [][FilterNext]_vars

(***************************************************************************)
(* Properties.                                                             *)
(***************************************************************************)
\* The rowids of a batch, in order.
RowidSeq(msgs) == [ k \in 1..Len(msgs) |-> msgs[k].rowid ]

\* The rowids the send calls of a log carried, in order.
RECURSIVE SentRowids(_)
SentRowids(log) ==
    IF log = << >> THEN << >>
    ELSE [ k \in 1..Len(log[1].rowids) |-> log[1].rowids[k] ] \o SentRowids(Tail(log))

\* Every send call of the log returned False.
AllSendsFailed(log) ==
    /\ log # << >>
    /\ \A k \in 1..Len(log) : log[k].result = "False"

\* state.json parses and holds the cursor c.
CursorIs(c) == stateFile = StateJson(c)

\* The step is a kill of the running process.
KillStep == pc # "stopped" /\ pc' = "stopped" /\ exit' = "killed"

\* C1: a cycle that fetched a non-empty batch and ran to completion has
\* persisted the maximum rowid of ALL fetched records, whatever the filter
\* removed and whatever the sends returned.
C1_CursorIsMaxFetched ==
    outcome = "completed" =>
        /\ messages # << >>
        /\ CursorIs(Max(Rowids(messages)))

\* C1 witness: a completed cycle whose highest fetched record was filtered
\* out and whose only send failed.
C1_Witness ==
    /\ outcome = "completed"
    /\ Len(messages) = 2
    /\ Len(filtered) = 1
    /\ filtered[1].rowid < messages[2].rowid
    /\ AllSendsFailed(sends)

\* C2 (as claimed): after every cycle of the daemon, skipped, empty and failed
\* cycles included, the persisted cursor equals the maximum rowid observed
\* across all fetches so far (or the initial cursor); as that maximum never
\* decreases, neither does the cursor.
C2_CursorIsMaxObserved ==
    pc = "returning" => CursorIs(maxSeen) \/ (maxSeen = 0 /\ stateFile = AbsentFile)

\* C3: a cycle whose fetch hits "database is locked" is skipped: run_once
\* returns (no exception), no send call is made, and state.json still holds
\* the cursor the cycle loaded, from which the next cycle starts.
C3_LockedCycleSkipped ==
    dbError = "database is locked" =>
        /\ outcome = "skipped"
        /\ sends = << >>
        /\ pc = "returning"
        /\ stateFile \in {AbsentFile, StateJson(last_rowid)}
        /\ stateFile = AbsentFile => last_rowid = 0

\* C3 witness: a skipped daemon cycle with a record waiting above a cursor
\* that an earlier cycle had advanced.
C3_Witness ==
    /\ dbError = "database is locked"
    /\ mode = "daemon"
    /\ stateFile.kind = "json"
    /\ stateFile.last_rowid > 0
    /\ \E r \in 1..Len(store) : Where(store, r, stateFile.last_rowid)

\* C4: when every send of a cycle returns False, the loop still goes on to
\* the next message, every admitted record gets its send call, the cycle does
\* not raise, and the cursor is advanced to the maximum fetched rowid.
C4_AllSendsFail ==
    AllSendsFailed(sends) =>
        /\ outcome # "raised"
        /\ pc = "forwarding" => (~cfg.digest_mode /\ i = Len(sends) + 1 /\ i <= Len(filtered))
        /\ pc # "forwarding" => SentRowids(sends) = RowidSeq(filtered)
        /\ outcome = "completed" => CursorIs(Max(Rowids(messages)))

\* C4 witness: a completed cycle of two admitted records, both sends failed.
C4_Witness ==
    /\ outcome = "completed"
    /\ Len(filtered) = 2
    /\ Len(sends) = 2
    /\ AllSendsFailed(sends)

\* C5: within a cycle state.json is written only when the batch has been
\* filtered and every admitted record has had its send call; a kill anywhere
\* between the fetch and the write leaves state.json holding the cursor the
\* cycle started from; and the next fetch after such a kill returns the same
\* batch again (as a prefix, when rows were appended meanwhile).
C5_PersistAfterForward ==
    /\ [][ (stateFile' # stateFile /\ mode # "seed") =>
             /\ pc \in {"persist", "writing"}
             /\ filtered = apply_filters(messages, cfg.filters)
             /\ SentRowids(sends) = RowidSeq(filtered) ]_vars
    /\ [][ (KillStep /\ pc \in {"fetched", "forwarding", "persist"}) =>
             /\ stateFile' = stateFile
             /\ stateFile \in {AbsentFile, StateJson(last_rowid)}
             /\ lostBatch' = messages ]_vars
    /\ [](pc = "fetched" /\ lostBatch # << >> => IsPrefix(lostBatch, messages))

\* C5 witness: a cycle killed with a batch of two in hand, and the next
\* fetch returning that batch again.
C5_Witness ==
    /\ pc = "fetched"
    /\ Len(lostBatch) = 2
    /\ messages = lostBatch

\* C6 (as claimed): whenever the process is gone, in particular after a kill
\* during save_state, state.json holds a complete old or new value, so that
\* load_state succeeds.
C6_AtomicCursorWrite ==
    pc = "stopped" => ~load_state(stateFile).error

\* C7: in daemon mode a cycle that raises leaves the process alive and
\* sleeping, the daemon never ends by an exception, and after a failed cycle
\* another cycle is started.
C7_DaemonSurvivesFailure ==
    /\ [](mode = "daemon" => exit # "exception")
    /\ [](mode = "daemon" /\ pc = "stopped" => exit = "killed")
    /\ ((mode = "daemon" /\ outcome = "raised") ~> pc = "run_once")

\* C7 witness: a daemon cycle that raised out of a send call.
C7_Witness ==
    /\ mode = "daemon"
    /\ outcome = "raised"
    /\ sends # << >>

\* C8 (as claimed): no send call of the webhook sink raises; every outcome
\* other than success is a returned False.
C8_WebhookNeverRaises ==
    cfg.forward_method = "gchat_webhook" =>
        \A k \in 1..Len(sends) : sends[k].result \in {"True", "False"}

\* C9: the email sink returns False for every connect, authentication and
\* submit failure and never raises, so a cycle that called it completes and
\* persists the maximum fetched rowid.
C9_EmailNeverRaises ==
    cfg.forward_method = "email" =>
        /\ \A k \in 1..Len(sends) : sends[k].result \in {"True", "False"}
        /\ answer \in {"connect_failed", "auth_failed", "submit_failed"} =>
               Last(sends).result = "False"
        /\ (sends # << >> /\ outcome # "none") =>
               (outcome = "completed" /\ CursorIs(Max(Rowids(messages))))

\* C9 witness: a send refused at authentication, returned as False.
C9_Witness ==
    /\ cfg.forward_method = "email"
    /\ answer = "auth_failed"
    /\ pc = "persist"
    /\ Last(sends).result = "False"

\* C10 (as claimed): no record is passed to a send call again after a send
\* call for it failed, neither in the same cycle nor in a later one.
C10_NoRetry ==
    [][ Len(sends') > Len(sends) =>
          Range(Last(sends').rowids) \cap failedEver = {} ]_vars

\* The highest ROWID of the message table, 0 when it is empty.
StoreMaximum == Max({0} \cup DOMAIN store)

\* C11: main --seed saves the store's current maximum rowid as the cursor
\* (rows of every kind counted), makes no fetch and no send call, and ends
\* with exit code 0; a cycle run right after it on an unchanged store loads
\* that cursor, fetches nothing and makes no send call.
C11_SeedSkipsHistory ==
    /\ [](mode = "seed" =>
            /\ pc \in {"seed", "writing", "stopped"}
            /\ messages = << >>
            /\ sends = << >>)
    /\ [][ (pc = "seed" /\ pc' = "writing") => state'.last_rowid = StoreMaximum ]_vars
    /\ [][ (mode = "seed" /\ pc = "writing" /\ pc' = "stopped" /\ exit' = "ok") =>
             stateFile' = StateJson(state.last_rowid) ]_vars
    /\ [](seeded # {} =>
            /\ seeded = {StoreMaximum}
            /\ CursorIs(StoreMaximum)
            /\ sends = << >>
            /\ messages = << >>
            /\ pc \in {"loaded", "fetched", "returning"} => last_rowid = StoreMaximum
            /\ outcome \in {"none", "empty", "skipped", "raised"})

\* C11 witness: a store of three rows seeded, then one cycle on the unchanged
\* store, whose fetch came back empty.
C11_Witness ==
    /\ seeded = {3}
    /\ mode = "once"
    /\ outcome = "empty"
    /\ \E r \in DOMAIN store : store[r].is_from_me = 0

\* The records of the store that qualify for a fetch above the cursor c.
Qualifying(c) == { r \in DOMAIN store : Where(store, r, c) }

\* C12 (as claimed): the fetch returns only records above the cursor, in
\* strictly ascending rowid order (no rowid twice), at most limit of them,
\* and they are the lowest-numbered qualifying records.
C12_FetchContract ==
    [][ (pc = "loaded" /\ pc' = "fetched") =>
          /\ \A k \in 1..Len(messages') : messages'[k].rowid \in Qualifying(last_rowid)
          /\ \A k \in 1..(Len(messages') - 1) : messages'[k].rowid < messages'[k + 1].rowid
          /\ Len(messages') <= cfg.max_messages_per_run
          /\ \A r \in Qualifying(last_rowid) \ Rowids(messages') :
                /\ Len(messages') = cfg.max_messages_per_run
                /\ r > Last(messages').rowid ]_vars

\* C13: whatever the Messages app appends between a cycle's fetch and its
\* save, the cursor the cycle saves skips no record: every record that
\* qualified above the loaded cursor and is not in the fetched batch lies
\* above the saved cursor, and will be returned by a later fetch.
C13_NoRecordSkipped ==
    /\ pc = "writing" /\ mode # "seed" =>
          \A r \in Qualifying(last_rowid) \ Rowids(messages) : r > state.last_rowid
    /\ outcome = "completed" =>
          /\ CursorIs(state.last_rowid)
          /\ \A r \in Qualifying(last_rowid) \ Rowids(messages) :
                r \in Qualifying(stateFile.last_rowid)

\* C13 witness: a completed cycle whose batch was not cut by the limit, with
\* a qualifying record in the store that the batch does not hold: it was
\* appended after the fetch.
C13_Witness ==
    /\ outcome = "completed"
    /\ Len(messages) < cfg.max_messages_per_run
    /\ Qualifying(last_rowid) \ Rowids(messages) # {}

\* C14: once a cycle has completed and left nothing above the cursor it
\* saved, every further cycle on the unchanged store is a no-op: its fetch
\* comes back empty, it makes no send call, run_once returns at "No new
\* messages", and state.json is not written at all: the cursor stays.
C14_IdempotentNoOp ==
    /\ [](consumed # {} =>
            /\ \E c \in consumed : CursorIs(c)
            /\ messages = << >>
            /\ filtered = << >>
            /\ sends = << >>
            /\ pc \notin {"forwarding", "persist"}
            /\ outcome \in {"none", "empty", "skipped", "raised"}
            /\ (outcome = "raised" => dbError \in OperationalErrors))
    /\ [][ (consumed # {} /\ mode' # "seed") => stateFile' = stateFile ]_vars

\* C14 witness: the cursor saved by a completed cycle, and a second cycle on
\* the unchanged store that fetched nothing and returned.
C14_Witness ==
    /\ consumed = {2}
    /\ mode = "daemon"
    /\ outcome = "empty"
    /\ pc = "returning"

\* apply_filters has run on the batch in hand.
Filtered == pc \in {"forwarding", "persist"}

\* The k-th record of the batch is in the result of apply_filters.
Kept(k) == \E j \in 1..Len(filtered) : filtered[j].rowid = messages[k].rowid

\* The date of a record lies on a business day within business hours.
InBusinessHours(msg) ==
    /\ msg.date.present
    /\ msg.date.weekday \in business_days
    /\ BusinessHoursStart <= msg.date.hour
    /\ msg.date.hour < BusinessHoursEnd

\* C15: a record whose sender is on the block-list is rejected under every
\* filter setting, also when the sender is on the allow-list as well and
\* when its date is within business hours (or the rule is off).
C15_BlockPrecedence ==
    Filtered =>
        \A k \in 1..Len(messages) :
            messages[k].sender \in cfg.filters.blocked_senders => ~Kept(k)

\* C15 witness: a record within business hours whose sender is on both lists.
C15_Witness ==
    /\ Filtered
    /\ messages[1].sender \in cfg.filters.allowed_senders \cap cfg.filters.blocked_senders
    /\ InBusinessHours(messages[1])
    /\ cfg.filters.business_hours_only
    /\ ~Kept(1)

\* C16 (as claimed): with business_hours_only set, a record without a date is
\* rejected, whatever its sender.
C16_FailClosed ==
    Filtered =>
        \A k \in 1..Len(messages) :
            (cfg.filters.business_hours_only /\ ~messages[k].date.present) => ~Kept(k)

\* C17: with a non-empty allow-list every record whose sender is not on it
\* is rejected; with an empty allow-list no record is rejected for its
\* sender unless the sender is blocked: it is kept when business_hours_only
\* is off or its date is within business hours, so that a rejection can only
\* come from the business-hours rule.
C17_AllowList ==
    Filtered =>
        \A k \in 1..Len(messages) :
            LET sender == messages[k].sender
                f == cfg.filters
            IN  /\ (f.allowed_senders # {} /\ sender \notin f.allowed_senders) => ~Kept(k)
                /\ (f.allowed_senders = {} /\ sender \notin f.blocked_senders) =>
                       /\ ~f.business_hours_only => Kept(k)
                       /\ InBusinessHours(messages[k]) => Kept(k)
                       /\ ~Kept(k) => (f.business_hours_only /\ ~InBusinessHours(messages[k]))

\* C17 witness: under an empty allow-list and a block-list naming the other
\* sender, one record kept and one, dated outside business hours, rejected.
C17_Witness ==
    /\ Filtered
    /\ cfg.filters.allowed_senders = {}
    /\ cfg.filters.blocked_senders = {"b"}
    /\ Len(messages) = 2
    /\ messages[1].sender = "a" /\ Kept(1)
    /\ messages[2].sender = "a" /\ ~Kept(2)

C19_DigestIsOneSend ==
    cfg.digest_mode =>
        /\ Len(sends) <= 1
        /\ sends # << >> =>
              /\ filtered # << >>
              /\ sends[1].rowids = RowidSeq(filtered)
              /\ sends[1].text.header = << Len(filtered) >>
              /\ Len(sends[1].text.body) = Len(filtered)
              /\ \A k \in 1..Len(filtered) :
                    /\ sends[1].text.body[k].sender = filtered[k].sender
                    /\ sends[1].text.body[k].ts = filtered[k].date
        /\ (pc \in {"persist", "writing"} \/ outcome = "completed") =>
              Len(sends) = (IF filtered = << >> THEN 0 ELSE 1)

\* C19 witness: a digest of two admitted records sent in one call, and the
\* cycle completed.
C19_Witness ==
    /\ cfg.digest_mode
    /\ outcome = "completed"
    /\ Len(filtered) = 2
    /\ Len(sends) = 1
    /\ sends[1].text.header = << 2 >>
    /\ filtered[1].sender # filtered[2].sender

\* The configuration has every field its sink requires: a known
\* forward_method and, for the webhook sink, a webhook URL.
ValidConfig(c) ==
    /\ c.forward_method \in {"gchat_webhook", "email"}
    /\ c.forward_method = "gchat_webhook" => c.gchat_webhook_url # ""

\* C20 (as claimed): with a configuration that lacks a required field (an
\* empty gchat_webhook_url for the webhook sink) no process gets past its
\* start: it never enters run_once or the seed, it never ends with exit code
\* 0, and nothing is fetched, sent or written to state.json.
C20_InvalidConfigIsFatal ==
    (configExists /\ ~ValidConfig(cfg)) =>
        /\ pc = "stopped"
        /\ exit # "ok"
        /\ messages = << >>
        /\ sends = << >>
        /\ stateFile = AbsentFile

\* C21 (as claimed): every cycle that completes, the one with an empty
\* fetch included, writes state.json (refreshing last_run) exactly once, as
\* its last act: run_once returns normally only out of save_state, except
\* for the cycle skipped on a locked store.
C21_WriteEveryCycle ==
    [][ (pc' = "returning" /\ outcome' \in {"completed", "empty"}) =>
          (pc = "writing" /\ stateFile' = save_state_write(state)) ]_vars

\* The cursor relay.py --status finds in state.json.
PersistedCursor == load_state(stateFile).last_rowid

\* C22 (as claimed): the backlog --status reports equals the store's maximum
\* rowid minus the persisted cursor, for every store maximum and cursor.
C22_BacklogIsDifference ==
    report # << >> => report[1].pending = StoreMaximum - PersistedCursor

\* C22 (amended): --status writes nothing to state.json or the store, makes
\* no fetch and no send call, and reports as backlog the store's maximum
\* minus the persisted cursor where that is not negative, and 0 where the
\* cursor lies above the store's maximum.
C22_StatusReadOnly ==
    /\ [][ (pc = "status" \/ pc' = "status") =>
             /\ stateFile' = stateFile
             /\ store' = store
             /\ messages' = << >>
             /\ sends' = << >> ]_vars
    /\ [](report # << >> =>
            /\ report[1].last_rowid = PersistedCursor
            /\ report[1].db_max = StoreMaximum
            /\ (PersistedCursor <= StoreMaximum =>
                   report[1].pending = StoreMaximum - PersistedCursor)
            /\ (PersistedCursor > StoreMaximum => report[1].pending = 0))

\* C22 witness: a store of three rows and the cursor at 1: backlog 2.
C22_Witness ==
    /\ report # << >>
    /\ mode = "status"
    /\ exit = "ok"
    /\ Len(store) = 3
    /\ CursorIs(1)
    /\ report[1].pending = 2

\* C23 (as claimed): a webhook POST that is answered reports delivery (True)
\* for every 2xx status and failure (False) for every other status.
C23_Every2xxDelivered ==
    (cfg.forward_method = "gchat_webhook" /\ ValidUrl(cfg.gchat_webhook_url)
        /\ sends # << >>) =>
        /\ answer \in {"200", "204"} => Last(sends).result = "True"
        /\ answer = "HTTPError" => Last(sends).result = "False"

\* The raw value is below 1e15, at 1e15 or above it.
Below1e15(ts) == ts.giga < ThresholdGiga
AtLeast1e15(ts) == ts.giga >= ThresholdGiga

\* C24 (as claimed): every non-zero raw value below 1e15 is read as seconds
\* since the Apple epoch, and every raw value at or above 1e15, exactly 1e15
\* included, as nanoseconds since it; the Apple epoch lies 978,307,200 s
\* after the Unix epoch.
C24_ThresholdAt1e15 ==
    (normalized # << >> /\ apple_ts.present) =>
        /\ (Below1e15(apple_ts) /\ (apple_ts.giga # 0 \/ apple_ts.rest # 0)) =>
               normalized[1] = FromSeconds(apple_ts)
        /\ AtLeast1e15(apple_ts) =>
               /\ normalized[1].kind = "datetime"
               /\ normalized[1].secs.giga * Giga + normalized[1].secs.rest
                     = apple_ts.giga + APPLE_EPOCH_OFFSET
               /\ normalized[1].nanos = apple_ts.rest

\* The raw values of the table: 1_000_000_000 and 1_000_000_000_000_000_000.
Raw1e9 == [present |-> TRUE, giga |-> 1, rest |-> 0]
Raw1e18 == [present |-> TRUE, giga |-> Giga, rest |-> 0]

\* The datetime n seconds after the Apple epoch, for n below 1e9 + 21692800.
AppleEpochPlus(n) ==
    [kind |-> "datetime",
     secs |-> [giga |-> (n + APPLE_EPOCH_OFFSET) \div Giga,
               rest |-> (n + APPLE_EPOCH_OFFSET) % Giga],
     nanos |-> 0]

\* C25 (as claimed): raw 0 or absent gives None, raw 1e9 gives the Apple
\* epoch + 1e9 seconds, and raw 1e18 gives the Apple epoch + 1 second.
C25_SpecTable ==
    normalized # << >> =>
        /\ (~apple_ts.present \/ (apple_ts.giga = 0 /\ apple_ts.rest = 0)) =>
               normalized[1].kind = "None"
        /\ apple_ts = Raw1e9 => normalized[1] = AppleEpochPlus(Giga)
        /\ apple_ts = Raw1e18 => normalized[1] = AppleEpochPlus(1)

\* C25 (amended): raw 0 or absent gives None, raw 1e9 (seconds) gives the
\* Apple epoch + 1e9 seconds, and raw 1e18 (nanoseconds) gives the Apple
\* epoch + 1e9 seconds as well, 1e18 ns being 1e9 s.
C25_Table ==
    normalized # << >> =>
        /\ (~apple_ts.present \/ (apple_ts.giga = 0 /\ apple_ts.rest = 0)) =>
               normalized[1].kind = "None"
        /\ apple_ts = Raw1e9 => normalized[1] = AppleEpochPlus(Giga)
        /\ apple_ts = Raw1e18 => normalized[1] = AppleEpochPlus(Giga)

\* C25 witness: raw 1e18 converted, to 2032-09-09 01:46:40 UTC.
C25_Witness ==
    /\ normalized # << >>
    /\ apple_ts = Raw1e18
    /\ normalized[1].kind = "datetime"
    /\ normalized[1].secs = [giga |-> 1, rest |-> APPLE_EPOCH_OFFSET]

\* C26 (as claimed): in a daemon that is not killed and whose fetches do not
\* fail for ever, the store being appended to only finitely often, every
\* qualifying record above the cursor is eventually fetched and state.json
\* eventually holds a cursor with no qualifying record above it.
C26_BacklogEventuallyDrained ==
    (mode = "daemon" /\ pc = "run_once") ~>
        (~load_state(stateFile).error /\ Qualifying(PersistedCursor) = {})

\* C27: a cycle that ends by an exception (state.json unparsable, a store
\* error other than the lock, a send that raises) has written nothing:
\* no step of it touched state.json, which still holds the cursor the cycle
\* loaded, and a fetch from that cursor returns the batch of the failed cycle
\* again (as a prefix, when rows were appended meanwhile). A store error
\* other than "database is locked" does end the cycle by an exception.
C27_StateUnchangedOnError ==
    /\ [](outcome = "raised" =>
            /\ pc = "returning"
            /\ \/ load_state(stateFile).error /\ messages = << >> /\ sends = << >>
               \/ ~load_state(stateFile).error /\ PersistedCursor = last_rowid
            /\ ~load_state(stateFile).error =>
                  IsPrefix(messages, fetch_new_messages(store, PersistedCursor,
                                                        cfg.max_messages_per_run)))
    /\ [][ outcome' = "raised" => stateFile' = stateFile ]_vars
    /\ [](dbError \in OperationalErrors \ {"database is locked"} => outcome = "raised")

\* C27 witness: a daemon cycle that loaded a cursor saved earlier, fetched a
\* batch and raised out of a send call.
C27_Witness ==
    /\ outcome = "raised"
    /\ mode = "daemon"
    /\ CursorIs(last_rowid)
    /\ last_rowid > 0
    /\ messages # << >>
    /\ sends # << >>

\* C28 (as claimed): while no process is killed and no send raises, a send
\* call carries only records above the cursor in state.json, none of which
\* an earlier send call of the cycle carried already; with the cursor saved
\* at or above every record sent, no record is passed to a send twice.
C28_AtMostOnce ==
    [][ (Len(sends') > Len(sends) /\ Returned(Last(sends').result)) =>
          /\ \A r \in Range(Last(sends').rowids) : r > PersistedCursor
          /\ Range(Last(sends').rowids) \cap Range(SentRowids(sends)) = {} ]_vars

\* The fetched records the configured filters let through, in fetch order.
PassingFilters ==
    LET Passes(m) == Admitted(m, cfg.filters) IN SelectSeq(messages, Passes)

\* C29: in single and in digest mode alike, every record handed to a send
\* call is a fetched record that the filters let through, no text sent names
\* a sender that is blocked or missing from a non-empty allow-list, and once
\* forward has returned the records sent are exactly the filter's output.
C29_OnlyFilterOutputSent ==
    /\ \A k \in 1..Len(sends) :
          /\ \A r \in Range(sends[k].rowids) :
                \E j \in 1..Len(messages) :
                    messages[j].rowid = r /\ Admitted(messages[j], cfg.filters)
          /\ \A b \in Range(sends[k].text.body) :
                /\ b.sender \notin cfg.filters.blocked_senders
                /\ cfg.filters.allowed_senders # {} =>
                       b.sender \in cfg.filters.allowed_senders
    /\ (pc \in {"persist", "writing"} \/ outcome = "completed") =>
          SentRowids(sends) = RowidSeq(PassingFilters)

\* C29 witness: a completed cycle that fetched a record of a blocked sender
\* next to an admitted one, and sent the admitted one alone, as a digest.
C29_Witness ==
    /\ outcome = "completed"
    /\ cfg.digest_mode
    /\ \E j \in 1..Len(messages) : messages[j].sender \in cfg.filters.blocked_senders
    /\ Len(sends) = 1
    /\ Len(sends[1].text.body) = 1
    /\ Len(messages) = 2

\* C30: rows being appended only, the cursor in state.json never exceeds the
\* highest rowid of the store, whatever seeds and cycles ran; and the cursor
\* a seed saves is not below the cursor state.json held before it.
C30_CursorBounded ==
    /\ [](stateFile.kind = "json" => stateFile.last_rowid <= StoreMaximum)
    /\ [][ (pc = "seed" /\ pc' = "writing") => state'.last_rowid >= PersistedCursor ]_vars
    /\ [][ (mode = "seed" /\ pc = "writing" /\ pc' = "stopped" /\ exit' = "ok") =>
             PersistedCursor' = state.last_rowid ]_vars

\* C30 witness: a seed that ended on a store of three rows, after cycles had
\* made send calls, with the cursor at the store's maximum.
C30_Witness ==
    /\ mode = "seed"
    /\ pc = "stopped"
    /\ exit = "ok"
    /\ failedEver # {}
    /\ StoreMaximum = 3
    /\ CursorIs(StoreMaximum)

====
